---- MODULE Spec2Model ----
(***************************************************************************)
(* A model of the Wordle bot of src/bot.ts and its transport src/main.ts:  *)
(* the per-user session, the process-wide word cache, the word provider,   *)
(* the guess evaluator and the middleware chain that dispatches updates.   *)
(*                                                                         *)
(* Strings are sequences of one-character strings, so that length, trim,   *)
(* toUpperCase and indexing are computed and not assumed.                  *)
(***************************************************************************)
EXTENDS Integers, Sequences, FiniteSets, TLC

VARIABLES
    session,     \* user -> WordleSession (bot.ts 14-19, 31-37)
    wordCache,   \* the process-wide cache (bot.ts 46), NoCache for null
    clock,       \* the calendar date new Date() yields
    isDev,       \* NODE_ENV === "development" (bot.ts 25, main.ts 5)
    apiKey,      \* whether OPENAI_API_KEY is set (bot.ts 59)
    pending,     \* user -> the handlers of that user suspended in the generator
                 \* call, in the order in which they were suspended
    reply,       \* the last ctx.reply sent
    evalCall,    \* an evaluateGuess call: its arguments and its result
    calls,       \* caller -> its last call of the word provider, when the
                 \* provider is called on its own
    http         \* the last request the webhook server answered, and its answer

vars == <<session, wordCache, clock, isDev, apiKey, pending, reply, evalCall,
          calls, http>>

-----------------------------------------------------------------------------
(* Bounds of the model *)

MaxDate == 2
MaxEvalLen == 3
MaxPending == 2

\* The number of attempts a game allows (bot.ts 224: attempts.length >= 6).
MaxAttempts == 6
\* The length of a word and of a guess (bot.ts 89, 129, 200).
WordLength == 5

\* The chats that talk to the bot, one session each (bot.ts 31-37). Sessions
\* of different chats share nothing but wordCache.
Users == {"alice"}
\* lastGameDate not set (bot.ts 18), and the date of no cache entry.
NoDate == 0

-----------------------------------------------------------------------------
(* Strings *)

Lower == <<"a", "b", "c", "d", "e", "f", "g", "h", "i", "j", "k", "l", "m",
           "n", "o", "p", "q", "r", "s", "t", "u", "v", "w", "x", "y", "z">>
Upper == <<"A", "B", "C", "D", "E", "F", "G", "H", "I", "J", "K", "L", "M",
           "N", "O", "P", "Q", "R", "S", "T", "U", "V", "W", "X", "Y", "Z">>

\* The character U+00DF (sharp s), written by its name.
SharpS == "sharp-s"

\* String.prototype.toUpperCase on one character: a lower-case letter maps to
\* its upper-case letter, U+00DF maps to the two characters "SS" (Unicode
\* SpecialCasing), and a character without a mapping is kept.
UpperOf == [c \in {Lower[i] : i \in 1..Len(Lower)} |->
               Upper[CHOOSE i \in 1..Len(Lower) : Lower[i] = c]]

UpperChar(c) ==
    IF c \in DOMAIN UpperOf THEN <<UpperOf[c]>>
    ELSE IF c = SharpS THEN <<"S", "S">>
    ELSE <<c>>

RECURSIVE toUpperCase(_)
toUpperCase(s) ==
    IF s = <<>> THEN <<>> ELSE UpperChar(Head(s)) \o toUpperCase(Tail(s))

\* The white space String.prototype.trim removes.
IsSpace(c) == c \in {" ", "\t", "\n"}

RECURSIVE trimStart(_)
trimStart(s) ==
    IF s # <<>> /\ IsSpace(Head(s)) THEN trimStart(Tail(s)) ELSE s

RECURSIVE trimEnd(_)
trimEnd(s) ==
    IF s # <<>> /\ IsSpace(s[Len(s)]) THEN trimEnd(SubSeq(s, 1, Len(s) - 1)) ELSE s

trim(s) == trimEnd(trimStart(s))

-----------------------------------------------------------------------------
(* The guess evaluator (bot.ts 134-154) *)

\* The three marks: green, yellow and white square.
Exact == "G"
Present == "Y"
Absent == "W"
\* bot.ts 136: the string returned for a guess of another length than the target.
InvalidGuessLength ==
    <<"I", "n", "v", "a", "l", "i", "d", " ", "g", "u", "e", "s", "s", " ",
      "l", "e", "n", "g", "t", "h">>

\* includes that starts the search at the second character.
includes_SkipsFirst(targetChars, c) == \E j \in 2..Len(targetChars) : targetChars[j] = c

\* targetChars.includes(c)
includes(targetChars, c) == \E j \in 1..Len(targetChars) : targetChars[j] = c

\* The loop of evaluateGuess from position i on, result being the marks so far.
RECURSIVE evalLoop(_, _, _, _)
evalLoop(guess, targetChars, i, result) ==
    IF i > Len(guess) THEN result
    ELSE evalLoop(guess, targetChars, i + 1,
                  Append(result,
                         IF guess[i] = targetChars[i] THEN Exact
                         ELSE IF includes(targetChars, guess[i]) THEN Present
                         ELSE Absent))

evaluateGuess(guess, target) ==
    IF Len(guess) # Len(target) THEN InvalidGuessLength
    ELSE evalLoop(guess, target, 1, <<>>)

isValidWord(word) == Len(word) = WordLength

-----------------------------------------------------------------------------
(* The word provider (bot.ts 46-122) *)

\* wordCache = null (bot.ts 46): no date equals its date.
NoCache == [date |-> NoDate, word |-> <<>>, definition |-> ""]

ASSET == <<"A", "S", "S", "E", "T">>
FallbackDefinition == "Any item of economic value owned by an individual or corporation."

\* What the awaited generator call can come back with: a thrown error (network
\* error, no choices, content that JSON.parse rejects), or a parsed object
\* whose word field is missing, has the wrong length, or has 5 characters.
Thrown == [kind |-> "throw", hasWord |-> FALSE, word |-> <<>>, definition |-> ""]
Parsed(w, d) == [kind |-> "json", hasWord |-> TRUE, word |-> w, definition |-> d]
NoWordField(d) == [kind |-> "json", hasWord |-> FALSE, word |-> <<>>, definition |-> d]

GenResponses ==
    { Thrown,
      NoWordField("a definition without a word"),
      Parsed(<<"b", "o", "n", "d">>, "definition of bond"),
      Parsed(<<"b", "o", "n", "d", "s">>, "definition of bonds"),
      Parsed(<<"s", "t", "r", "a", SharpS>>, "definition of stras") }

\* bot.ts 89: the validation of the parsed response.
validResponse(resp) ==
    /\ resp.kind = "json"
    /\ resp.hasWord
    /\ resp.word # <<>>
    /\ Len(resp.word) = WordLength

\* bot.ts 104-108: the value returned from the catch block.
fallback(now) == [date |-> now, word |-> ASSET, definition |-> FallbackDefinition]

\* bot.ts 54: the cache holds an entry for today.
cacheHit(cache, today) == cache # NoCache /\ cache.date = today

\* bot.ts 94-98: the entry stored after a valid response; today is the date
\* read at the start of the call.
cacheEntry(today, resp) ==
    [date |-> today, word |-> toUpperCase(resp.word), definition |-> resp.definition]

\* getFinancialTermFromOpenAI up to its await: TRUE when the call returns
\* without contacting the generator (cache hit, or no API key and the throw
\* caught at line 101).
returnsAtOnce(cache, today, key) == cacheHit(cache, today) \/ ~key

\* The value such a call returns.
immediateResult(cache, today) ==
    IF cacheHit(cache, today) THEN cache ELSE fallback(today)

\* The value a call returns once the generator has answered with resp, and the
\* cache it leaves behind.
resumedResult(today, now, resp) ==
    IF validResponse(resp) THEN cacheEntry(today, resp) ELSE fallback(now)

\* resumedCache that stores the fallback when the answer is not valid.
resumedCache_CachesFallback(cache, today, resp) ==
    IF validResponse(resp) THEN cacheEntry(today, resp) ELSE fallback(today)

resumedCache(cache, today, resp) ==
    IF validResponse(resp) THEN cacheEntry(today, resp) ELSE cache

-----------------------------------------------------------------------------
(* Updates and the middleware chain (bot.ts 157, 169, 191, 233, 250) *)

Str_start == <<"/", "s", "t", "a", "r", "t">>
Str_play == <<"/", "p", "l", "a", "y">>
Str_definition == <<"/", "d", "e", "f", "i", "n", "i", "t", "i", "o", "n">>
Str_help == <<"/", "h", "e", "l", "p">>

\* The text messages a user sends in the model: the four commands, a guess in
\* lower case with white space around it, a text of 4 characters that has 5
\* when upper-cased, and a text that is too short.
Texts ==
    { Str_start, Str_play, Str_definition, Str_help,
      <<" ", "a", "s", "s", "e", "t", "\n">>,
      <<"a", SharpS, "e", "t">>,
      <<"n", "o">> }

\* The first word of a text: the bot_command entity at offset 0.
RECURSIVE firstToken(_)
firstToken(s) ==
    IF s = <<>> \/ IsSpace(Head(s)) THEN <<>> ELSE <<Head(s)>> \o firstToken(Tail(s))

\* The filter of bot.command(name): the message starts with the command.
matchesCommand(text, name) == firstToken(text) = name

\* The filter of bot.on("message:text"): every message that has a text.
matchesText(text) == TRUE

\* The middleware in the order of registration; none of the handlers calls next().
Chain == << [handler |-> "start",      command |-> Str_start],
            [handler |-> "play",       command |-> Str_play],
            [handler |-> "text",       command |-> <<>>],
            [handler |-> "definition", command |-> Str_definition],
            [handler |-> "help",       command |-> Str_help] >>

matches(m, text) ==
    IF m.handler = "text" THEN matchesText(text) ELSE matchesCommand(text, m.command)

\* The first middleware from position i on whose filter matches the text.
RECURSIVE firstMatch(_, _)
firstMatch(text, i) ==
    IF i > Len(Chain) THEN "none"
    ELSE IF matches(Chain[i], text) THEN Chain[i].handler
    ELSE firstMatch(text, i + 1)

\* The handler that handles a text: the first of the chain whose filter matches.
Route(text) == firstMatch(text, 1)

\* Route computed once for each text of the model.
RouteOf == [text \in Texts |-> Route(text)]

-----------------------------------------------------------------------------
(* Sessions and replies *)

\* bot.ts 32-36: the initial session; lastGameDate is not set.
initial == [currentWord |-> <<>>, attempts |-> <<>>, gameActive |-> FALSE,
            lastGameDate |-> NoDate]

\* No handler is suspended in the generator call.
NoPending == <<>>

\* A handler suspended at its await (bot.ts 177, 245): what it has read so far.
Suspended(handler, today, text) == [handler |-> handler, today |-> today, text |-> text]

\* s without its k-th element.
Without(s, k) == SubSeq(s, 1, k - 1) \o SubSeq(s, k + 1, Len(s))

\* A reply: the user and update it answers, the handler that sent it, which of
\* the handler's messages it is, and what the message text is built from.
Reply(u, text, by, kind) ==
    [to |-> u, re |-> text, by |-> by, kind |-> kind, n |-> 0, guess |-> <<>>,
     evaluation |-> <<>>, outcome |-> "none", word |-> <<>>, definition |-> ""]

NoReply == Reply("nobody", <<>>, "none", "none")

\* A handler of user u may start. Long polling (main.ts 5-7) handles the
\* updates one after the other: none starts while another is suspended. The
\* webhook server (main.ts 12-24) starts a handler for every request it
\* receives, whatever the handlers of earlier requests are waiting for.
canReceive(u) ==
    isDev => \A v \in DOMAIN pending : pending[v] = NoPending

-----------------------------------------------------------------------------
(* The handlers *)

\* bot.ts 157-166
cmdStart(u, text) ==
    /\ reply' = Reply(u, text, "start", "welcome")
    /\ UNCHANGED <<session, wordCache, pending>>

\* startGame without the write of lastGameDate (bot.ts 181 left out).
startGame_ForgetsDate(u, text, today, word) ==
    /\ session' = [session EXCEPT ![u] =
                      [currentWord |-> word, attempts |-> <<>>,
                       gameActive |-> TRUE, lastGameDate |-> @.lastGameDate]]
    /\ reply' = Reply(u, text, "play", "started")

\* startGame without the reset of attempts (bot.ts 179 left out).
startGame_KeepsAttempts(u, text, today, word) ==
    /\ session' = [session EXCEPT ![u] =
                      [currentWord |-> word, attempts |-> @.attempts,
                       gameActive |-> TRUE, lastGameDate |-> today]]
    /\ reply' = Reply(u, text, "play", "started")

\* bot.ts 178-187: the writes of /play once the word is there, and its reply.
startGame(u, text, today, word) ==
    /\ session' = [session EXCEPT ![u] =
                      [currentWord |-> word, attempts |-> <<>>,
                       gameActive |-> TRUE, lastGameDate |-> today]]
    /\ reply' = Reply(u, text, "play", "started")

\* alreadyPlayed with the development flag the wrong way round.
alreadyPlayed_FlagInverted(s, today, dev) == s.lastGameDate = today /\ dev

\* bot.ts 173: the daily limit.
alreadyPlayed(s, today, dev) == s.lastGameDate = today /\ ~dev

\* bot.ts 169-188, up to the answer of the generator when it is contacted.
cmdPlay(u, text) ==
    LET today == clock IN
    IF alreadyPlayed(session[u], today, isDev)
    THEN /\ reply' = Reply(u, text, "play", "already")
         /\ UNCHANGED <<session, wordCache, pending>>
    ELSE IF returnsAtOnce(wordCache, today, apiKey)
    THEN /\ startGame(u, text, today, immediateResult(wordCache, today).word)
         /\ UNCHANGED <<wordCache, pending>>
    ELSE /\ Len(pending[u]) < MaxPending
         /\ pending' = [pending EXCEPT ![u] = Append(@, Suspended("play", today, text))]
         /\ UNCHANGED <<session, wordCache, reply>>

\* bot.ts 197: the guess a text stands for.
guessOf(text) == toUpperCase(trim(text))

\* guessOf computed once for each text of the model.
GuessOf == [text \in Texts |-> guessOf(text)]

\* outcomeOf without the test for the win (bot.ts 219-222 left out).
outcomeOf_NeverWins(guess, currentWord, attempts) ==
    IF Len(attempts) >= MaxAttempts THEN "lost" ELSE "none"

\* outcomeOf with the loss checked before the win.
outcomeOf_LossFirst(guess, currentWord, attempts) ==
    IF Len(attempts) >= MaxAttempts THEN "lost"
    ELSE IF guess = currentWord THEN "win"
    ELSE "none"

\* outcomeOf with the limit compared by > instead of >=.
outcomeOf_LimitOffByOne(guess, currentWord, attempts) ==
    IF guess = currentWord THEN "win"
    ELSE IF Len(attempts) > MaxAttempts THEN "lost"
    ELSE "none"

\* bot.ts 219 and 224: how the game stands after the guess was pushed.
outcomeOf(guess, currentWord, attempts) ==
    IF guess = currentWord THEN "win"
    ELSE IF Len(attempts) >= MaxAttempts THEN "lost"
    ELSE "none"

\* rejectText with the guess pushed before it is validated.
rejectText_PushesFirst(u, text, kind) ==
    /\ reply' = Reply(u, text, "text", kind)
    /\ session' = [session EXCEPT ![u].attempts = Append(@, GuessOf[text])]
    /\ UNCHANGED <<wordCache, pending>>

\* bot.ts 194, 201, 206: the early returns of the text handler.
rejectText(u, text, kind) ==
    /\ reply' = Reply(u, text, "text", kind)
    /\ UNCHANGED <<session, wordCache, pending>>

\* bot.ts 191-230
onMessageText(u, text) ==
    LET s == session[u]
        guess == GuessOf[text]
        attempts == Append(s.attempts, guess)
        outcome == outcomeOf(guess, s.currentWord, attempts)
    IN
    IF ~s.gameActive THEN rejectText(u, text, "noGame")
    ELSE IF Len(guess) # WordLength THEN rejectText(u, text, "fiveLetters")
    ELSE IF ~isValidWord(guess) THEN rejectText(u, text, "notValid")
    ELSE /\ session' = [session EXCEPT ![u] =
                           [s EXCEPT !.attempts = attempts,
                                     !.gameActive = outcome = "none"]]
         /\ reply' = [Reply(u, text, "text", "attempt") EXCEPT
                         !.n = Len(attempts),
                         !.guess = guess,
                         !.evaluation = evaluateGuess(guess, s.currentWord),
                         !.outcome = outcome,
                         !.word = IF outcome = "lost" THEN s.currentWord ELSE <<>>]
         /\ UNCHANGED <<wordCache, pending>>

\* bot.ts 246: the reply of /definition.
hint(u, text, definition) ==
    [Reply(u, text, "definition", "hint") EXCEPT !.definition = definition]

\* bot.ts 233-247, up to the answer of the generator when it is contacted.
cmdDefinition(u, text) ==
    LET s == session[u]
        today == clock
    IN
    IF ~s.gameActive
    THEN /\ reply' = Reply(u, text, "definition", "noGame")
         /\ UNCHANGED <<session, wordCache, pending>>
    ELSE IF Len(s.attempts) = 0
    THEN /\ reply' = Reply(u, text, "definition", "guessFirst")
         /\ UNCHANGED <<session, wordCache, pending>>
    ELSE IF returnsAtOnce(wordCache, today, apiKey)
    THEN /\ reply' = hint(u, text, immediateResult(wordCache, today).definition)
         /\ UNCHANGED <<session, wordCache, pending>>
    ELSE /\ Len(pending[u]) < MaxPending
         /\ pending' = [pending EXCEPT ![u] =
                           Append(@, Suspended("definition", today, text))]
         /\ UNCHANGED <<session, wordCache, reply>>

\* bot.ts 250-258
cmdHelp(u, text) ==
    /\ reply' = Reply(u, text, "help", "help")
    /\ UNCHANGED <<session, wordCache, pending>>

-----------------------------------------------------------------------------
(* The actions *)

\* An update of user u with the given text runs through the chain.
handleUpdate(u, text) ==
    /\ canReceive(u)
    /\ LET h == RouteOf[text] IN
       CASE h = "start"      -> cmdStart(u, text)
         [] h = "play"       -> cmdPlay(u, text)
         [] h = "text"       -> onMessageText(u, text)
         [] h = "definition" -> cmdDefinition(u, text)
         [] h = "help"       -> cmdHelp(u, text)
         [] OTHER            -> UNCHANGED <<session, wordCache, pending, reply>>
    /\ UNCHANGED <<clock, isDev, apiKey, evalCall, calls>>

\* An update of user u with the given text arrives.
Update(u, text) == handleUpdate(u, text) /\ UNCHANGED http

\* The generator answers the call that the k-th suspended handler of user u
\* awaits (bot.ts 65-100, then 178-187 or 246).
GeneratorReturn(u, k, resp) ==
    /\ k \in DOMAIN pending[u]
    /\ LET p == pending[u][k]
           result == resumedResult(p.today, clock, resp)
       IN  /\ wordCache' = resumedCache(wordCache, p.today, resp)
           /\ pending' = [pending EXCEPT ![u] = Without(@, k)]
           /\ IF p.handler = "play"
              THEN startGame(u, p.text, p.today, result.word)
              ELSE /\ reply' = hint(u, p.text, result.definition)
                   /\ UNCHANGED session
    /\ UNCHANGED <<clock, isDev, apiKey, evalCall, calls, http>>

\* Midnight (UTC) passes.
Tick ==
    /\ clock < MaxDate
    /\ clock' = clock + 1
    /\ UNCHANGED <<session, wordCache, isDev, apiKey, pending, reply, evalCall,
                   calls, http>>

\* No request answered yet.
NoRequest == [method |-> "none", path |-> <<>>, to |-> "nobody", text |-> <<>>,
              passed |-> FALSE, status |-> 0]

\* The callers of the word provider: getTodaysWord and getTodaysWordDefinition
\* as called by the handlers of two updates (bot.ts 113-122).
Callers == {"c1", "c2"}

\* A call of getFinancialTermFromOpenAI by one caller: not made yet, suspended
\* at the await of bot.ts 65, or returned. today is the date read at bot.ts
\* 51, returnedOn the date at the return, raised whether the call ended in an
\* error instead of a value, failed whether it went through the catch block,
\* contacted whether it reached the generator.
NoCall == [status |-> "idle", today |-> NoDate, returnedOn |-> NoDate,
           result |-> NoCache, raised |-> FALSE, failed |-> FALSE,
           contacted |-> FALSE]

NoCalls == [c \in Callers |-> NoCall]

NoEval == [guess |-> <<>>, target |-> <<>>, result |-> <<>>, done |-> FALSE,
           threw |-> FALSE]

Init ==
    /\ session = [u \in Users |-> initial]
    /\ wordCache = NoCache
    /\ clock = 1
    /\ isDev \in BOOLEAN
    /\ apiKey \in BOOLEAN
    /\ pending = [u \in Users |-> NoPending]
    /\ reply = NoReply
    /\ evalCall = NoEval
    /\ calls = NoCalls
    /\ http = NoRequest

Next ==
    \/ \E u \in Users, text \in Texts : Update(u, text)
    \/ \E u \in Users, k \in 1..MaxPending, resp \in GenResponses :
           GeneratorReturn(u, k, resp)
    \/ Tick

Spec == Init /\ [][Next]_vars

-----------------------------------------------------------------------------
(* evaluateGuess on its own: every guess and target up to MaxEvalLen *)

EvalAlphabet == {"A", "S", "E"}

EvalStrings == UNION { [1..n -> EvalAlphabet] : n \in 0..MaxEvalLen }

EvalInit ==
    /\ session = [u \in Users |-> initial]
    /\ wordCache = NoCache
    /\ clock = 1
    /\ isDev = FALSE
    /\ apiKey = FALSE
    /\ pending = [u \in Users |-> NoPending]
    /\ reply = NoReply
    /\ evalCall \in [guess : EvalStrings, target : EvalStrings,
                     result : {<<>>}, done : {FALSE}, threw : {FALSE}]
    /\ calls = NoCalls
    /\ http = NoRequest

\* The call completes: both paths of evaluateGuess end in a return statement
\* (bot.ts 136, 153) and the function has no throw, so the call never raises.
Evaluate ==
    /\ ~evalCall.done
    /\ evalCall' = [evalCall EXCEPT !.result = evaluateGuess(evalCall.guess, evalCall.target),
                                    !.done = TRUE,
                                    !.threw = FALSE]
    /\ UNCHANGED <<session, wordCache, clock, isDev, apiKey, pending, reply,
                   calls, http>>

EvalNext == Evaluate

SpecEval == EvalInit /\ [][EvalNext]_vars

-----------------------------------------------------------------------------
(* The word provider on its own: two callers, every answer of the generator *)

ProviderInit ==
    /\ session = [u \in Users |-> initial]
    /\ wordCache = NoCache
    /\ clock = 1
    /\ isDev \in BOOLEAN
    /\ apiKey \in BOOLEAN
    /\ pending = [u \in Users |-> NoPending]
    /\ reply = NoReply
    /\ evalCall = NoEval
    /\ calls = NoCalls
    /\ http = NoRequest

\* A caller may call: under long polling the handler that calls runs alone,
\* the handlers of the webhook server overlap (main.ts 5-24).
canCall(c) ==
    /\ calls[c].status # "waiting"
    /\ isDev => \A d \in Callers : calls[d].status # "waiting"

\* bot.ts 50-80: the call up to its await, or to its return when it does not
\* get there. The catch block returns a value for every error thrown in the
\* try block, and nothing outside the try block can throw.
ProviderCall(c) ==
    /\ canCall(c)
    /\ LET today == clock IN
       calls' = [calls EXCEPT ![c] =
                    IF returnsAtOnce(wordCache, today, apiKey)
                    THEN [status |-> "returned", today |-> today, returnedOn |-> clock,
                          result |-> immediateResult(wordCache, today),
                          raised |-> FALSE,
                          failed |-> ~cacheHit(wordCache, today),
                          contacted |-> FALSE]
                    ELSE [NoCall EXCEPT !.status = "waiting", !.today = today,
                                        !.contacted = TRUE]]
    /\ UNCHANGED <<session, wordCache, clock, isDev, apiKey, pending, reply, evalCall,
                   http>>

\* bot.ts 82-109: the generator answers and the call returns.
ProviderReturn(c, resp) ==
    /\ calls[c].status = "waiting"
    /\ LET today == calls[c].today IN
       /\ calls' = [calls EXCEPT ![c] =
                       [@ EXCEPT !.status = "returned",
                                 !.returnedOn = clock,
                                 !.result = resumedResult(today, clock, resp),
                                 !.raised = FALSE,
                                 !.failed = ~validResponse(resp)]]
       /\ wordCache' = resumedCache(wordCache, today, resp)
    /\ UNCHANGED <<session, clock, isDev, apiKey, pending, reply, evalCall, http>>

ProviderNext ==
    \/ \E c \in Callers : ProviderCall(c)
    \/ \E c \in Callers, resp \in GenResponses : ProviderReturn(c, resp)
    \/ Tick

SpecProvider == ProviderInit /\ [][ProviderNext]_vars

-----------------------------------------------------------------------------
(* Two chats that share the word cache, each sending /play *)

Chats == {"alice", "bob"}

ChatTexts == {Str_play}

ChatsInit ==
    /\ session = [u \in Chats |-> initial]
    /\ wordCache = NoCache
    /\ clock = 1
    /\ isDev \in BOOLEAN
    /\ apiKey \in BOOLEAN
    /\ pending = [u \in Chats |-> NoPending]
    /\ reply = NoReply
    /\ evalCall = NoEval
    /\ calls = NoCalls
    /\ http = NoRequest

ChatsNext ==
    \/ \E u \in Chats, text \in ChatTexts : Update(u, text)
    \/ \E u \in Chats, k \in 1..MaxPending, resp \in GenResponses :
           GeneratorReturn(u, k, resp)
    \/ Tick

SpecChats == ChatsInit /\ [][ChatsNext]_vars

-----------------------------------------------------------------------------
(* The webhook server (main.ts 9-24) *)

\* Deno.env.get("BOT_TOKEN")
BotToken == <<"T", "K">>

\* url.pathname of the requests of the model: the token path, the root, a
\* prefix of the token, and the token path with a trailing slash.
Paths ==
    { <<"/">> \o BotToken,
      <<"/">>,
      <<"/", "T">>,
      <<"/">> \o BotToken \o <<"/">> }

ServeTexts == {Str_play, <<" ", "a", "s", "s", "e", "t", "\n">>}

\* A request: its method, its path, and the update in its body.
Requests ==
    [method : {"POST", "GET"}, path : Paths, to : Users, text : ServeTexts]

\* String.prototype.slice(1)
slice1(s) == SubSeq(s, 2, Len(s))

\* passes without the test of the method.
passes_AnyMethod(req) == slice1(req.path) = BotToken

\* main.ts 13-15: the request is handed to handleUpdate.
passes(req) == req.method = "POST" /\ slice1(req.path) = BotToken

\* The answer to a request, and whether handleUpdate was called for it.
Answer(req, passed, status) ==
    [method |-> req.method, path |-> req.path, to |-> req.to, text |-> req.text,
     passed |-> passed, status |-> status]

\* main.ts 12-24: a request is served. handleUpdate's own response is 200; when
\* it throws, the error is logged (main.ts 18-20) and the 404 of main.ts 23 is
\* returned.
Serve(req, threw) ==
    /\ ~isDev
    /\ IF passes(req)
       THEN /\ handleUpdate(req.to, req.text)
            /\ http' = Answer(req, TRUE, IF threw THEN 404 ELSE 200)
       ELSE /\ ~threw
            /\ http' = Answer(req, FALSE, 404)
            /\ UNCHANGED <<session, wordCache, clock, isDev, apiKey, pending, reply,
                           evalCall, calls>>

ServeInit ==
    /\ session = [u \in Users |-> initial]
    /\ wordCache = NoCache
    /\ clock = 1
    /\ isDev = FALSE
    /\ apiKey \in BOOLEAN
    /\ pending = [u \in Users |-> NoPending]
    /\ reply = NoReply
    /\ evalCall = NoEval
    /\ calls = NoCalls
    /\ http = NoRequest

ServeNext ==
    \/ \E req \in Requests, threw \in BOOLEAN : Serve(req, threw)
    \/ \E u \in Users, k \in 1..MaxPending, resp \in GenResponses :
           GeneratorReturn(u, k, resp)
    \/ Tick

SpecServe == ServeInit /\ [][ServeNext]_vars

-----------------------------------------------------------------------------
(* The /definition handler on its own (bot.ts 233-247): the handler is run on *)
(* the sessions that /play and guesses produce, without the chain before it. *)

DefinitionTexts == {Str_play, <<" ", "a", "s", "s", "e", "t", "\n">>}

\* The handler registered at bot.ts 233 runs for user u.
DefinitionHandler(u) ==
    /\ canReceive(u)
    /\ cmdDefinition(u, Str_definition)
    /\ UNCHANGED <<clock, isDev, apiKey, evalCall, calls, http>>

DefinitionNext ==
    \/ \E u \in Users, text \in DefinitionTexts : Update(u, text)
    \/ \E u \in Users : DefinitionHandler(u)
    \/ \E u \in Users, k \in 1..MaxPending, resp \in GenResponses :
           GeneratorReturn(u, k, resp)
    \/ Tick

SpecDefinition == Init /\ [][DefinitionNext]_vars

-----------------------------------------------------------------------------
(* Properties *)

\* The text the reply of this step answers: the only text whose update can
\* have been handled and answered in this step.
AnsweredTexts == {reply'.re} \cap Texts

\* The update (u, text) is handled in this step and answered.
Answered(u, text) == reply'.to = u /\ reply'.re = text /\ Update(u, text)

\* The text handler takes the update (u, text) in this step.
TextStep(u, text) == Answered(u, text) /\ RouteOf[text] = "text"

\* A /play of user u starts a game in this step: at once, or when the generator
\* answers the call it was suspended in.
StartsGame(u) ==
    /\ reply'.kind = "started"
    /\ reply'.to = u
    /\ \/ Update(u, Str_play) /\ pending' = pending
       \/ \E k \in DOMAIN pending[u], resp \in GenResponses : GeneratorReturn(u, k, resp)

\* Every recorded attempt of s differs from its word.
AllWrong(s) == \A i \in 1..Len(s.attempts) : s.attempts[i] # s.currentWord

\* C1: in a game whose five recorded attempts all differ from currentWord, a
\* sixth 5-character guess that differs from currentWord sets gameActive to
\* false and its reply reveals currentWord; a text message sent to the session
\* after that (six wrong attempts, no active game) is answered "No active game"
\* and leaves the session as it was.
C1_SixthAttemptLoses ==
    [][\A u \in Users, text \in AnsweredTexts :
          LET s == session[u] IN
          /\ ( /\ s.gameActive
               /\ Len(s.attempts) = MaxAttempts - 1
               /\ TextStep(u, text)
               /\ AllWrong(s)
               /\ Len(GuessOf[text]) = WordLength
               /\ GuessOf[text] # s.currentWord )
             => /\ ~session'[u].gameActive
                /\ Len(session'[u].attempts) = MaxAttempts
                /\ reply'.kind = "attempt"
                /\ reply'.outcome = "lost"
                /\ reply'.word = s.currentWord
          /\ ( /\ ~s.gameActive
               /\ Len(s.attempts) = MaxAttempts
               /\ TextStep(u, text)
               /\ AllWrong(s) )
             => /\ reply'.kind = "noGame"
                /\ session' = session
      ]_vars

\* A lost game of six wrong attempts whose seventh message was just rejected.
C1_Witness ==
    \E u \in Users :
        /\ Len(session[u].attempts) = MaxAttempts
        /\ AllWrong(session[u])
        /\ ~session[u].gameActive
        /\ reply.to = u
        /\ reply.by = "text"
        /\ reply.kind = "noGame"
        /\ Len(guessOf(reply.re)) = WordLength

\* C2: a /definition update is answered with the definition if and only if the
\* session has an active game with at least one recorded attempt.
C2_DefinitionIffActiveWithAttempt ==
    [][\A u \in Users :
          Answered(u, Str_definition)
          => ( reply'.kind = "hint"
               <=> (session[u].gameActive /\ Len(session[u].attempts) >= 1) )
      ]_vars

\* C3: handling /start, /help or /definition leaves the session unchanged in
\* every state, and /start and /help are answered with their static text.
C3_CommandsAreNotGuesses ==
    [][\A u \in Users, text \in {Str_start, Str_help, Str_definition} :
          Answered(u, text)
          => /\ session' = session
             /\ text = Str_start => reply'.kind = "welcome"
             /\ text = Str_help => reply'.kind = "help"
      ]_vars

\* C4: outside development mode a /play received when lastGameDate is today's
\* date is answered "already played" and changes nothing: the session, the
\* cache and the suspended calls stay as they were (no provider call is made).
C4_SecondPlayChangesNothing ==
    [][\A u \in Users :
          ( /\ ~isDev
            /\ session[u].lastGameDate = clock
            /\ Update(u, Str_play) )
          => /\ reply'.kind = "already"
             /\ reply'.to = u
             /\ session' = session
             /\ wordCache' = wordCache
             /\ pending' = pending
      ]_vars

\* A second /play of the day was rejected in a session that holds the attempts
\* of the day's first game.
C4_Witness ==
    \E u \in Users :
        /\ ~isDev
        /\ reply.to = u
        /\ reply.kind = "already"
        /\ session[u].lastGameDate = clock
        /\ Len(session[u].attempts) >= 2

\* C5: outside development mode at most one /play per calendar date starts a
\* game in a session: a /play that starts the game of a date does not find the
\* game of that date already recorded in lastGameDate.
C5_OneGamePerDate ==
    [][\A u \in Users :
          ( ~isDev /\ StartsGame(u) )
          => session[u].lastGameDate # session'[u].lastGameDate
      ]_vars

\* C6: attempts never holds more than 6 guesses, and at most 5 while the game
\* is active.
C6_AttemptsBounded ==
    \A u \in Users :
        /\ Len(session[u].attempts) <= MaxAttempts
        /\ session[u].gameActive => Len(session[u].attempts) <= MaxAttempts - 1

\* In development mode, a game started on the second date has used all its
\* attempts.
C6_Witness ==
    \E u \in Users :
        /\ isDev
        /\ session[u].lastGameDate = 2
        /\ Len(session[u].attempts) = MaxAttempts
        /\ ~session[u].gameActive

\* C7: while a game is active, currentWord has exactly 5 characters.
C7_ActiveWordHasFiveChars ==
    \A u \in Users :
        session[u].gameActive => Len(session[u].currentWord) = WordLength

C9_RejectedByTrimmedLength ==
    [][\A u \in Users, text \in AnsweredTexts :
          ( /\ TextStep(u, text)
            /\ ~session[u].gameActive \/ Len(trim(text)) # WordLength )
          => /\ reply'.kind \in {"noGame", "fiveLetters"}
             /\ session' = session
      ]_vars

\* C9 amended: a text message sent while no game is active, or while a game is
\* active and the trimmed and upper-cased text is not exactly 5 characters
\* long, is rejected with a plain reply and leaves the session unchanged.
C9_RejectedTextChangesNothing ==
    [][\A u \in Users, text \in AnsweredTexts :
          ( /\ TextStep(u, text)
            /\ ~session[u].gameActive \/ Len(GuessOf[text]) # WordLength )
          => /\ reply'.kind = (IF session[u].gameActive THEN "fiveLetters" ELSE "noGame")
             /\ session' = session
      ]_vars

\* A message of the wrong length was rejected in a game that has attempts.
C9_Witness ==
    \E u \in Users :
        /\ reply.to = u
        /\ reply.by = "text"
        /\ reply.kind = "fiveLetters"
        /\ Len(guessOf(reply.re)) # WordLength
        /\ session[u].gameActive
        /\ Len(session[u].attempts) >= 1

\* The mark of position i of a guess against a target, as the rule states it.
MarkAt(guess, target, i) ==
    IF guess[i] = target[i] THEN Exact
    ELSE IF \E j \in 1..Len(target) : target[j] = guess[i] THEN Present
    ELSE Absent

\* The number of positions of s that hold c.
Occurrences(s, c) == Cardinality({ j \in 1..Len(s) : s[j] = c })

\* C10: for a guess and a target of equal length evaluateGuess returns one mark
\* per position: exact where the characters agree, else present when the
\* guessed character occurs anywhere in the target, else absent.
C10_EvaluateMarks ==
    ( evalCall.done /\ Len(evalCall.guess) = Len(evalCall.target) )
    => /\ DOMAIN evalCall.result = 1..Len(evalCall.guess)
       /\ \A i \in 1..Len(evalCall.guess) :
             evalCall.result[i] = MarkAt(evalCall.guess, evalCall.target, i)

\* A letter that the target holds once was guessed at two wrong positions, and
\* both are marked present.
C10_Witness ==
    /\ evalCall.done
    /\ Len(evalCall.guess) = Len(evalCall.target)
    /\ \E i, k \in 1..Len(evalCall.guess) :
          /\ i # k
          /\ evalCall.guess[i] = evalCall.guess[k]
          /\ Occurrences(evalCall.target, evalCall.guess[i]) = 1
          /\ evalCall.result[i] = Present
          /\ evalCall.result[k] = Present

\* C11: a call of evaluateGuess with a guess and a target of different lengths
\* raises an error: it does not complete by returning a value to its caller.
C11_LengthMismatchRaises ==
    ( evalCall.done /\ Len(evalCall.guess) # Len(evalCall.target) ) => evalCall.threw

\* The call of caller c returns in this step.
Returns(c) == calls'[c] # calls[c] /\ calls'[c].status = "returned"

C13_SameDateSameWord ==
    \A c \in Callers, d \in Callers :
        ( /\ calls[c].status = "returned"
          /\ calls[d].status = "returned"
          /\ ~calls[c].failed
          /\ ~calls[d].failed
          /\ calls[c].today = calls[d].today )
        => /\ calls[c].result.word = calls[d].result.word
           /\ calls[c].result.definition = calls[d].result.definition

\* The same with the calls made one after the other, as under long polling.
C13_SameDateSameWordInOrder == isDev => C13_SameDateSameWord

\* An entry returned by a call that did not fail carries the date of its return.
C13_ReturnedEntryIsOfToday ==
    \A c \in Callers :
        ( calls[c].status = "returned" /\ ~calls[c].failed )
        => calls[c].result.date = calls[c].returnedOn

\* C14: an update of a chat is handled to completion before the next update of
\* that chat is handled: while a handler of the chat is suspended between its
\* check and its writes, no update of the chat is handled.
C14_OneUpdateAtATime ==
    [][\A u \in Users :
          pending[u] # NoPending => \A text \in Texts : ~Update(u, text)
      ]_vars

\* The same under long polling only.
C14_OneUpdateAtATimeWhenPolling ==
    [][\A u \in Users :
          ( isDev /\ pending[u] # NoPending ) => \A text \in Texts : ~Update(u, text)
      ]_vars

\* A guess is never recorded in a session while a /play of that session is
\* between its daily-limit check and its writes.
C14_NoGuessDuringPlay ==
    [][\A u \in Users :
          pending[u] # NoPending => session'[u].attempts = session[u].attempts
                                    \/ StartsGame(u)
      ]_vars

\* C15: two sessions whose games were started on the same date have the same
\* currentWord.
C15_OneWordPerDate ==
    \A u \in Chats, v \in Chats :
        ( /\ session[u].lastGameDate # NoDate
          /\ session[u].lastGameDate = session[v].lastGameDate )
        => session[u].currentWord = session[v].currentWord

\* C16: in webhook mode a request is handed to the update handler only if its
\* method is POST and its path without the leading slash is the bot token;
\* every other request is answered 404 and changes no session (nor anything
\* else of the bot's state).
C16_OnlyTokenPostsAreHandled ==
    [][\A req \in Requests, passed \in BOOLEAN, status \in {200, 404} :
          ( /\ http' = Answer(req, passed, status)
            /\ \E threw \in BOOLEAN : Serve(req, threw) )
          => /\ passed => ( req.method = "POST" /\ req.path = <<"/">> \o BotToken )
             /\ ( req.method # "POST" \/ req.path # <<"/">> \o BotToken )
                => /\ status = 404
                   /\ ~passed
                   /\ session' = session
                   /\ <<wordCache', pending', reply'>> = <<wordCache, pending, reply>>
      ]_vars

\* A guess was handled in an active game, and a POST that carries a guess to
\* another path than the token's was then answered 404.
C16_Witness ==
    \E u \in Users :
        /\ session[u].gameActive
        /\ Len(session[u].attempts) = 1
        /\ http.method = "POST"
        /\ http.path # <<"/">> \o BotToken
        /\ http.to = u
        /\ http.text # Str_play
        /\ http.status = 404
        /\ ~http.passed

\* The session a /play leaves behind: a fresh active game of the date today.
FreshGame(word, today) ==
    [currentWord |-> word, attempts |-> <<>>, gameActive |-> TRUE,
     lastGameDate |-> today]

\* C17: a /play that is not rejected (lastGameDate differs from the date it
\* reads, or development mode) leaves the session with the word the provider
\* returned to it, no attempts, gameActive true and lastGameDate the date it
\* read, whatever the session was before, an active game with attempts
\* included; until the provider has returned it changes nothing.
C17_PlayStartsFreshGame ==
    [][\A u \in Users :
          /\ ( /\ session[u].lastGameDate # clock \/ isDev
               /\ pending' # pending \/ reply'.re = Str_play
               /\ Update(u, Str_play) )
             => IF pending' = pending
                THEN /\ session'[u] = FreshGame(immediateResult(wordCache, clock).word, clock)
                     /\ reply'.kind = "started"
                ELSE session' = session
          /\ \A k \in DOMAIN pending[u] :
                ( /\ pending[u][k].handler = "play"
                  /\ pending' = [pending EXCEPT ![u] = Without(@, k)] )
                => \E resp \in GenResponses :
                      /\ session'[u] = FreshGame(resumedResult(pending[u][k].today, clock, resp).word,
                                                 pending[u][k].today)
                      /\ reply'.kind = "started"
      ]_vars

\* Outside development mode the session played the game of the first date,
\* whose word is in the cache, and a /play of the second date has replaced it
\* by a fresh game with the fallback word.
C17_Witness ==
    \E u \in Users :
        /\ ~isDev
        /\ reply.kind = "started"
        /\ reply.to = u
        /\ wordCache.date = 1
        /\ session[u] = FreshGame(ASSET, 2)
        /\ wordCache.word # ASSET

\* The definition is the one the provider gives together with the word: the
\* fallback definition for ASSET, the generator's definition for its word.
belongsTo(definition, word) ==
    \/ word = ASSET /\ definition = FallbackDefinition
    \/ \E resp \in GenResponses :
          /\ validResponse(resp)
          /\ toUpperCase(resp.word) = word
          /\ resp.definition = definition

C18_NoDefinitionIsSent == reply.kind # "hint"

\* The session and the count in the reply after the wrong guess g that is not
\* the last attempt of the game: g is appended, everything else is kept.
WrongGuessRecorded(u, g) ==
    /\ session'[u] = [session[u] EXCEPT !.attempts = Append(@, g)]
    /\ reply'.kind = "attempt"
    /\ reply'.outcome = "none"
    /\ reply'.guess = g
    /\ reply'.n = Len(session'[u].attempts)

\* C19: in an active game an accepted guess of 5 characters (after trimming
\* and upper-casing) that differs from currentWord and is not the sixth attempt
\* is appended to attempts, the earlier attempts, gameActive, currentWord and
\* lastGameDate stay as they were, and the reply carries the pattern of the
\* guess against currentWord and the new number of attempts.
C19_WrongGuessIsRecorded ==
    [][\A u \in Users, text \in AnsweredTexts :
          LET s == session[u]
              g == GuessOf[text]
          IN
          ( /\ s.gameActive
            /\ Len(s.attempts) < MaxAttempts - 1
            /\ TextStep(u, text)
            /\ Len(g) = WordLength
            /\ g # s.currentWord )
          => /\ WrongGuessRecorded(u, g)
             /\ DOMAIN reply'.evaluation = 1..WordLength
             /\ \A i \in 1..WordLength :
                   reply'.evaluation[i] = MarkAt(g, s.currentWord, i)
      ]_vars

\* The same without the pattern: what the guess does to the session and the
\* count the reply reports.
C19_WrongGuessFrame ==
    [][\A u \in Users, text \in AnsweredTexts :
          LET s == session[u]
              g == GuessOf[text]
          IN
          ( /\ s.gameActive
            /\ Len(s.attempts) < MaxAttempts - 1
            /\ TextStep(u, text)
            /\ Len(g) = WordLength
            /\ g # s.currentWord )
          => WrongGuessRecorded(u, g)
      ]_vars

\* No attempt of an active game equals its word.
ActiveGamesAllWrong == \A u \in Users : session[u].gameActive => AllWrong(session[u])

\* What a step does to gameActive of user u: a guess equal to currentWord
\* leaves it false with that guess as the last attempt; it becomes true only
\* when a /play starts a game; it becomes false only by a guess that equals
\* currentWord or is the sixth attempt.
GameActiveChanges(u) ==
    LET s == session[u]
        t == session'[u]
    IN
    /\ \A text \in AnsweredTexts :
          ( /\ s.gameActive
            /\ TextStep(u, text)
            /\ GuessOf[text] = s.currentWord )
          => /\ ~t.gameActive
             /\ t.attempts # <<>>
             /\ t.attempts[Len(t.attempts)] = t.currentWord
    /\ ( ~s.gameActive /\ t.gameActive ) => StartsGame(u)
    /\ ( s.gameActive /\ ~t.gameActive )
       => /\ reply'.kind = "attempt"
          /\ TextStep(u, reply'.re)
          /\ t.attempts = Append(s.attempts, GuessOf[reply'.re])
          /\ GuessOf[reply'.re] = s.currentWord \/ Len(t.attempts) = MaxAttempts

\* C20: in every state no attempt of an active game equals currentWord; a
\* winning guess leaves gameActive false and currentWord as the last attempt;
\* gameActive becomes true only through /play and false only through a winning
\* guess or the sixth attempt.
C20_GameActiveLifecycle ==
    /\ []ActiveGamesAllWrong
    /\ [][\A u \in Users : GameActiveChanges(u)]_vars

\* A game won at the third attempt after two wrong ones.
C20_Witness ==
    \E u \in Users :
        LET s == session[u] IN
        /\ ~s.gameActive
        /\ Len(s.attempts) = 3
        /\ s.attempts[3] = s.currentWord
        /\ s.attempts[1] # s.currentWord
        /\ s.attempts[2] # s.currentWord
        /\ reply.to = u
        /\ reply.outcome = "win"

====
